---- MODULE Spec2Model ----
(***************************************************************************)
(* Offline-first synchronisation engine of the defects manager.           *)
(*                                                                         *)
(* The repository holds three revisions of the OfflineSync service:       *)
(*   V1  src/src/services/OfflineSync.js lines 1-165: one 'defects'       *)
(*       store keyed by localId; a record is queued iff its _syncStatus   *)
(*       is 'pending'.                                                     *)
(*   V2  src/src/services/OfflineSync.js lines 167-409: a 'defects' store *)
(*       keyed by id and a 'syncQueue' store keyed by timestamp.          *)
(*   V3  src/unnamed/part_002: as V2, one transaction over both stores.   *)
(* The revision is fixed at Init.  An IndexedDB request that the code     *)
(* awaits is modelled by its result, an object store by a function from   *)
(* the keys it holds to the stored records.  The remote backend is an     *)
(* external collaborator: an upsert that deduplicates on the supplied     *)
(* identity and a read of all rows.                                        *)
(*                                                                         *)
(* public/service-worker.js holds two revisions of the caching worker     *)
(* (SW2 lines 1-190, SW1 lines 192-296).  CacheStorage is a function from *)
(* cache names to caches, a cache a function from request URLs to         *)
(* responses; a cache.put that the listener does not await is a task      *)
(* that settles in a later step.  SpecSW runs the worker alone.           *)
(*                                                                         *)
(* The page (App.js) contributes handleSaveDefect with its vessel check,  *)
(* handleOnline with the isSyncing indicator, the toasts and handleLogout *)
(* (SpecLogout).  SpecFault adds failing IndexedDB requests, SpecStored   *)
(* and SpecPending start from a database an earlier session filled, and   *)
(* SpecDrain adds weak fairness of the steps of a running drain cycle.    *)
(* SpecSWKept starts the worker over caches an earlier worker left, and   *)
(* SpecLoad runs the page load alone: the controllerchange listener of    *)
(* index.js and the retry loop of loadData.                               *)
(***************************************************************************)
EXTENDS Integers, Sequences, FiniteSets, TLC

VARIABLES
    variant,    \* the OfflineSync revision in use
    online,     \* navigator.onLine
    defects,    \* the 'defects' object store
    syncQueue,  \* the 'syncQueue' object store (V2, V3)
    remote,     \* the rows of the backend table
    pc,         \* where each handleOnline invocation stands
    snap,       \* the entries its drain cycle read at its start
    idx,        \* the position of its for loop in snap
    ret,        \* what its syncWithServer call returned
    log,        \* the upserts its drain cycle made, and their outcomes
    fetched,    \* how its fetchUserData call ended
    base,       \* what its drain cycle found at its read, and whether it ran alone
    start,      \* the stores when the first 'online' event fired (SpecQuiet)
    lastSave,   \* the last saveDefect call and its outcome
    saves,      \* saveDefect calls so far
    events,     \* 'online' events so far
    toast,      \* the last toast the page showed
    isSyncing,  \* the page's isSyncing state
    vessel,     \* vessel_id of the defect last handed to handleSaveDefect
    denied,     \* handleSaveDefect calls refused so far
    logouts,    \* handleLogout calls so far
    build,      \* the service-worker.js revision that is registered
    phase,      \* its lifecycle: parsed, installed, activated
    caches,     \* CacheStorage: cache name -> (request URL -> response)
    clock,      \* Date.now()
    tasks,      \* cache.put calls started and not yet settled
    reply,      \* the last fetch event and what its page received
    fetches,    \* fetch events so far
    sweeps,     \* runs of the periodic cleanup so far
    preexisting, \* the cache names that existed before the install
    refreshing, \* index.js: the flag of the controllerchange listener
    reloads,    \* window.location.reload() calls of this document
    changes,    \* controllerchange events so far
    loads,      \* documents loaded so far
    attempt,    \* retryOperation: the loop variable
    errors,     \* the errors its operation calls have thrown
    waits,      \* the delays it has waited, in ms
    settled     \* how its promise settled

appVars == <<variant, online, defects, syncQueue, remote, pc, snap, idx, ret,
             log, fetched, base, start, lastSave, saves, events,
             toast, isSyncing, vessel, denied, logouts>>

swVars == <<build, phase, caches, clock, tasks, reply, fetches, sweeps, preexisting>>

loadVars == <<refreshing, reloads, changes, loads, attempt, errors, waits, settled>>

vars == <<appVars, swVars, loadVars>>

(* ---------------- bounds ---------------- *)
\* saveDefect calls and 'online' events in one behaviour, together.
MaxOps == 3

Variants == {"V1", "V2", "V3"}
Payloads == {"leak", "leak, repaired"}

(* ---------------- values ---------------- *)
\* An absent (undefined) field.  Identities are pairs <<kind, n>>.
None == <<"none", 0>>

\* A defect without a _syncStatus field.
NoStatus == "none"

\* A defect: its identities, its domain fields (payload) and _syncStatus.
\* lastModified, a timestamp that no operation reads, is left out.
Rec(l, i, p, s) ==
    [localId |-> l, id |-> i, payload |-> p, syncStatus |-> s]

\* IndexedDB orders string keys lexicographically: "local_.." < "server_..".
KindRank(k) ==
    IF k = "local" THEN 1 ELSE IF k = "local-" THEN 2 ELSE IF k = "server" THEN 3
    ELSE IF k = "srv" THEN 4 ELSE IF k = "temp" THEN 5 ELSE 6

KeyLess(a, b) ==
    \/ KindRank(a[1]) < KindRank(b[1])
    \/ a[1] = b[1] /\ a[2] < b[2]

MinKey(S) == CHOOSE a \in S : \A b \in S \ {a} : KeyLess(a, b)

RECURSIVE SortedKeys(_)
SortedKeys(S) == IF S = {} THEN <<>> ELSE <<MinKey(S)>> \o SortedKeys(S \ {MinKey(S)})

\* store.put(value): insert or replace under the key.
Put(store, k, v) == [x \in DOMAIN store \cup {k} |-> IF x = k THEN v ELSE store[x]]

\* store.getAll(): every value, in key order.
GetAll(store) == [i \in 1..Cardinality(DOMAIN store) |-> store[SortedKeys(DOMAIN store)[i]]]

\* store.delete(key)
Delete(store, k) == [x \in DOMAIN store \ {k} |-> store[x]]

\* defects.filter(d => d._syncStatus === status)
RECURSIVE FilterSeq(_, _)
FilterSeq(s, status) ==
    IF s = <<>> THEN <<>>
    ELSE IF Head(s).syncStatus = status
         THEN <<Head(s)>> \o FilterSeq(Tail(s), status)
         ELSE FilterSeq(Tail(s), status)

(* ---------------- remote collaborator ---------------- *)
\* The row an upsert of d lands on: the row with d's id when d has one,
\* else the row first written under d's localId.
RemoteMatch(rows, d) ==
    {i \in DOMAIN rows :
        \/ d.id # None /\ rows[i].id = d.id
        \/ d.id = None /\ d.localId # None /\ rows[i].lid = d.localId}

RemoteUpsert(rows, d) ==
    IF RemoteMatch(rows, d) # {}
    THEN [i \in DOMAIN rows |->
            IF i \in RemoteMatch(rows, d) THEN [rows[i] EXCEPT !.payload = d.payload] ELSE rows[i]]
    ELSE Append(rows, [id |-> IF d.id # None THEN d.id ELSE <<"srv", Len(rows) + 1>>,
                       lid |-> d.localId,
                       payload |-> d.payload])

\* .select().single(): the row as the backend holds it after the upsert.
RemoteRow(rows, d) ==
    LET after == RemoteUpsert(rows, d)
        i == IF RemoteMatch(rows, d) # {} THEN CHOOSE j \in RemoteMatch(rows, d) : TRUE ELSE Len(after)
    IN Rec(None, after[i].id, after[i].payload, NoStatus)

(* ---------------- frames ---------------- *)
envVars == <<variant, online>>
dbVars == <<defects, syncQueue>>
procVars == <<pc, snap, idx, ret, log, fetched>>
budgetVars == <<saves, events>>
uiVars == <<toast, isSyncing, vessel, denied>>

Procs == 1..MaxOps

(* ---------------- V1: OfflineSync.js 1-165 ---------------- *)
\* generateLocalId(): a fresh `local_<time>_<random>` identity.
generateLocalId(store) ==
    <<"local", 1 + Cardinality({k \in DOMAIN store : k[1] = "local"})>>

\* storeDefects that never reuses the localId it is given.
StoreDefectFresh(store, d) ==
    Put(store, generateLocalId(store), [d EXCEPT !.localId = generateLocalId(store)])

\* storeDefects, for one defect.
StoreDefect(store, d) ==
    LET l == IF d.localId # None THEN d.localId ELSE generateLocalId(store)
    IN Put(store, l, [d EXCEPT !.localId = l])

\* storeDefects, for an array of defects.
RECURSIVE StoreDefects(_, _)
StoreDefects(store, ds) ==
    IF ds = <<>> THEN store
    ELSE StoreDefects(StoreDefect(store, Head(ds)), Tail(ds))

getDefects == GetAll(defects)

PendingCount(store, queue) ==
    IF variant = "V1"
    THEN Len(FilterSeq(GetAll(store), "pending"))
    ELSE Cardinality(DOMAIN queue)

getPendingSyncCount == PendingCount(defects, syncQueue)

\* What handleSaveDefect hands to saveDefect: a new defect from the form
\* (handleAddDefect gives it a temp-<time> id, which no V1 caller keeps), or
\* a stored defect whose text was changed in the form.
NewId == <<"temp", 1 + Cardinality({k \in DOMAIN defects : k[1] = "temp"})>>

Inputs ==
    {Rec(None, IF variant = "V1" THEN None ELSE NewId, "leak", NoStatus)}
    \cup UNION {{[defects[k] EXCEPT !.payload = p] : p \in Payloads \ {defects[k].payload}} :
                   k \in DOMAIN defects}

\* _syncStatus: navigator.onLine ? 'synced' : 'pending'
StatusNow == IF online THEN "synced" ELSE "pending"

\* The procs whose syncWithServer call is between its read and its return.
Draining == {p \in DOMAIN pc : pc[p] \in {"upsert", "store"}}

\* A saveDefect call as its caller sees it: the promise's outcome and value,
\* how the remote write went, and the drain cycles in flight beside it.
Saved(d, outcome, value, rem) ==
    [input |-> d, online |-> online, outcome |-> outcome, value |-> value,
     remote |-> rem, during |-> Draining]

defectWithId(d) ==
    [d EXCEPT !.localId = IF d.localId # None THEN d.localId ELSE generateLocalId(defects),
              !.syncStatus = StatusNow]

saveDefect(d) ==
    /\ variant = "V1"
    /\ IF online
       THEN \/ /\ remote' = RemoteUpsert(remote, d)
               /\ defects' = StoreDefect(defects, RemoteRow(remote, d))
               /\ lastSave' = Saved(d, "resolved", RemoteRow(remote, d), "ok")
            \/ /\ UNCHANGED <<remote, defects>>
               /\ lastSave' = Saved(d, "resolved", d, "failed")
       ELSE /\ defects' = StoreDefect(defects, defectWithId(d))
            /\ lastSave' = Saved(d, "resolved", defectWithId(d), "none")
            /\ UNCHANGED remote
    /\ UNCHANGED <<envVars, syncQueue, procVars, start, events, isSyncing, logouts, swVars, loadVars>>

(* ---------------- V2: OfflineSync.js 167-409 ---------------- *)
generateId(store) ==
    <<"local-", 1 + Cardinality({k \in DOMAIN store : k[1] = "local-"})>>

\* new Date().toISOString() at a save.  The dialog's saves are more than a
\* millisecond apart, so each reads a later time than the one before.
now == saves

QueueKey(t) == <<"ts", t>>

QueueEntry(d, t) == [type |-> "upsert", data |-> d, timestamp |-> t]

\* storeData that never reuses the id it is given.
StoreDataFresh(store, d) ==
    Put(store, generateId(store), [d EXCEPT !.id = generateId(store)])

\* storeData(this.stores.defects, item)
StoreData(store, d) ==
    LET i == IF d.id # None THEN d.id ELSE generateId(store)
    IN Put(store, i, [d EXCEPT !.id = i])

RECURSIVE StoreDataAll(_, _)
StoreDataAll(store, ds) ==
    IF ds = <<>> THEN store
    ELSE StoreDataAll(StoreData(store, Head(ds)), Tail(ds))

defectWithMeta(d) ==
    [d EXCEPT !.id = IF d.id # None THEN d.id ELSE generateId(defects),
              !.syncStatus = StatusNow]

saveDefectV2(d) ==
    /\ variant = "V2"
    /\ IF online
       THEN /\ \/ /\ remote' = RemoteUpsert(remote, defectWithMeta(d))
                  /\ defects' = StoreData(defects, RemoteRow(remote, defectWithMeta(d)))
                  /\ lastSave' = Saved(d, "resolved", RemoteRow(remote, defectWithMeta(d)), "ok")
               \/ /\ UNCHANGED <<remote, defects>>
                  /\ lastSave' = Saved(d, "rejected", d, "failed")
            /\ UNCHANGED syncQueue
       ELSE /\ defects' = StoreData(defects, defectWithMeta(d))
            /\ syncQueue' = Put(syncQueue, QueueKey(now), QueueEntry(defectWithMeta(d), now))
            /\ lastSave' = Saved(d, "resolved", defectWithMeta(d), "none")
            /\ UNCHANGED remote
    /\ UNCHANGED <<envVars, procVars, start, events, isSyncing, logouts, swVars, loadVars>>

(* ---------------- V3: unnamed/part_002 ---------------- *)
defectWithMetaV3(d) == [d EXCEPT !.syncStatus = StatusNow]

\* One transaction over both stores: an add() under a key the queue holds
\* aborts it, and the put with it.
saveDefectV3(d) ==
    /\ variant = "V3"
    /\ d.id # None
    /\ IF online
       THEN /\ defects' = Put(defects, d.id, defectWithMetaV3(d))
            /\ \/ /\ remote' = RemoteUpsert(remote, defectWithMetaV3(d))
                  /\ lastSave' = Saved(d, "resolved", defectWithMetaV3(d), "ok")
               \/ /\ UNCHANGED remote
                  /\ lastSave' = Saved(d, "rejected", d, "failed")
            /\ UNCHANGED syncQueue
       ELSE /\ IF QueueKey(now) \in DOMAIN syncQueue
               THEN UNCHANGED <<defects, syncQueue>>
               ELSE /\ defects' = Put(defects, d.id, defectWithMetaV3(d))
                    /\ syncQueue' = Put(syncQueue, QueueKey(now), QueueEntry(defectWithMetaV3(d), now))
            /\ lastSave' = Saved(d, "resolved", defectWithMetaV3(d), "none")
            /\ UNCHANGED remote
    /\ UNCHANGED <<envVars, procVars, start, events, isSyncing, logouts, swVars, loadVars>>

\* handleSaveDefect: the user saves the defect dialog.
InFlight(p) == pc[p] \in {"upsert", "store", "fetch"}

\* A drain cycle no longer runs alone once something else starts beside it.
Disturbed == [p \in Procs |-> IF InFlight(p) THEN [base[p] EXCEPT !.alone = FALSE] ELSE base[p]]

\* A toast: its title and description.
Toast(title, description) == [title |-> title, description |-> description]

NoToast == Toast("none", "")

\* The vessels of the fleet, and the ones assigned to the user.
Vessels == {"vessel-1", "vessel-2"}
assignedVessels == {"vessel-1"}

AuthorizedAny(v) == TRUE

\* assignedVessels.includes(updatedDefect.vessel_id)
Authorized(v) == v \in assignedVessels

\* Handler calls so far: one behaviour has at most MaxOps of them.
PageOps == saves + events + denied + logouts

\* The toast after saveDefect settled: success, or the catch's "Error".
SaveToast(outcome) ==
    IF outcome = "rejected" THEN Toast("Error", "Failed to save defect")
    ELSE Toast("Defect Saved", IF online THEN "saved" ELSE "saved offline")

\* The check threw: the catch shows the error and nothing else happens.
Refuse ==
    /\ denied' = denied + 1
    /\ toast' = Toast("Error", "Not authorized for this vessel")
    /\ UNCHANGED <<envVars, dbVars, remote, procVars, base, start, lastSave, budgetVars,
                   isSyncing, logouts, swVars, loadVars>>

handleSaveDefect(d, v) ==
    /\ PageOps < MaxOps
    /\ vessel' = v
    /\ IF ~Authorized(v)
       THEN Refuse
       ELSE /\ saves' = saves + 1
            /\ base' = Disturbed
            /\ saveDefect(d) \/ saveDefectV2(d) \/ saveDefectV3(d)
            /\ toast' = SaveToast(lastSave'.outcome)
            /\ UNCHANGED denied

(* ---------------- environment ---------------- *)
GoOffline ==
    /\ online
    /\ online' = FALSE
    /\ UNCHANGED <<variant, dbVars, remote, procVars, base, start, lastSave, budgetVars, uiVars, logouts, swVars, loadVars>>

(* ---------------- handleOnline / syncWithServer ---------------- *)
NotReturned == [type |-> "running"]
Undefined == [type |-> "undefined"]

Stores == [defects |-> defects, syncQueue |-> syncQueue, remote |-> remote]

\* window 'online' event: navigator.onLine is true and handleOnline starts.
Arrive(p) ==
    /\ ~online
    /\ PageOps < MaxOps
    /\ p = events + 1
    /\ events' = events + 1
    /\ online' = TRUE
    /\ isSyncing' = TRUE
    /\ pc' = [pc EXCEPT ![p] = "sync"]
    /\ base' = Disturbed
    /\ UNCHANGED <<variant, dbVars, remote, snap, idx, ret, log, fetched, lastSave, saves, toast, vessel, denied, logouts, swVars, loadVars>>

OnlineEvent(p) == Arrive(p) /\ UNCHANGED start

\* A browser that always reports a connection.
navigatorOnLineAlways == TRUE

\* navigator.onLine
navigatorOnLine == online

\* if (!navigator.onLine) return;
SyncGuard(p) ==
    /\ pc[p] = "sync"
    /\ IF navigatorOnLine
       THEN pc' = [pc EXCEPT ![p] = "read"] /\ UNCHANGED ret
       ELSE pc' = [pc EXCEPT ![p] = "fetch"] /\ ret' = [ret EXCEPT ![p] = Undefined]
    /\ UNCHANGED <<envVars, dbVars, remote, snap, idx, log, fetched, base, start, lastSave, budgetVars, uiVars, logouts, swVars, loadVars>>

\* this.getData(storeName) of V2: every value the store holds.
getData(store) == GetAll(store)

\* A snapshot that does not filter on _syncStatus.
SnapshotUnfiltered(store, queue) ==
    IF variant = "V1" THEN GetAll(store)
    ELSE IF variant = "V2" THEN getData(queue)
    ELSE GetAll(queue)

\* The entries one drain cycle works through: the pending defects (V1),
\* the queue (V2, V3).
Snapshot(store, queue) ==
    IF variant = "V1" THEN FilterSeq(GetAll(store), "pending")
    ELSE IF variant = "V2" THEN getData(queue)
    ELSE GetAll(queue)

Idle(q) == pc[q] \in {"idle", "done"}

\* The records of the store whose _syncStatus is 'synced'.
SyncedRecords(store) ==
    [k \in {x \in DOMAIN store : store[x].syncStatus = "synced"} |-> store[k]]

SyncRead(p) ==
    /\ pc[p] = "read"
    /\ snap' = [snap EXCEPT ![p] = Snapshot(defects, syncQueue)]
    /\ base' = [base EXCEPT ![p] = [read |-> TRUE,
                                    empty |-> getPendingSyncCount = 0,
                                    alone |-> \A q \in Procs \ {p} : Idle(q),
                                    synced |-> SyncedRecords(defects)]]
    /\ pc' = [pc EXCEPT ![p] = "upsert"]
    /\ UNCHANGED <<envVars, dbVars, remote, idx, ret, log, fetched, start, lastSave, budgetVars, uiVars, logouts, swVars, loadVars>>

\* The defect an item of the snapshot sends: defect (V1), item.data (V2, V3).
Sent(item) == IF variant = "V1" THEN item ELSE item.data

\* A failure that ends the loop instead.
AfterErrorAbort(i, n) == n + 1

\* catch (error) { console.error(..) }: on to the next item.
AfterError(i, n) == i + 1

\* await supabase.from(..).upsert([..])
SyncUpsert(p) ==
    /\ pc[p] = "upsert"
    /\ idx[p] <= Len(snap[p])
    /\ \/ /\ online
          /\ remote' = RemoteUpsert(remote, Sent(snap[p][idx[p]]))
          /\ log' = [log EXCEPT ![p] = Append(@, [item |-> snap[p][idx[p]], ok |-> TRUE])]
          /\ pc' = [pc EXCEPT ![p] = "store"]
          /\ UNCHANGED idx
       \/ /\ log' = [log EXCEPT ![p] = Append(@, [item |-> snap[p][idx[p]], ok |-> FALSE])]
          /\ idx' = [idx EXCEPT ![p] = AfterError(idx[p], Len(snap[p]))]
          /\ UNCHANGED <<remote, pc>>
    /\ UNCHANGED <<envVars, dbVars, snap, ret, fetched, base, start, lastSave, budgetVars, uiVars, logouts, swVars, loadVars>>

\* What a successful upsert of item does to the 'defects' store.
\* A write-back that drops the record it has sent.
DefectsAfterUpsertPurge(store, item) ==
    IF variant = "V1" THEN Delete(store, item.localId)
    ELSE Delete(store, item.data.id)

DefectsAfterUpsert(store, item) ==
    IF variant = "V1"
    THEN StoreDefect(store, [item EXCEPT !.syncStatus = "synced"])
    ELSE IF variant = "V2"
    THEN store
    ELSE IF item.data.id \in DOMAIN store
         THEN [store EXCEPT ![item.data.id].syncStatus = "synced"]
         ELSE store

\* What a successful upsert of item does to the 'syncQueue' store.
QueueAfterUpsert(queue, item) ==
    IF variant = "V1" THEN queue ELSE Delete(queue, QueueKey(item.timestamp))

SyncStore(p) ==
    /\ pc[p] = "store"
    /\ defects' = DefectsAfterUpsert(defects, snap[p][idx[p]])
    /\ syncQueue' = QueueAfterUpsert(syncQueue, snap[p][idx[p]])
    /\ idx' = [idx EXCEPT ![p] = idx[p] + 1]
    /\ pc' = [pc EXCEPT ![p] = "upsert"]
    /\ UNCHANGED <<envVars, remote, snap, ret, log, fetched, base, start, lastSave, budgetVars, uiVars, logouts, swVars, loadVars>>

\* End of the for loop: the function has no return statement.
SyncResult(p) == Undefined

\* A cycle that reads the pending entries again when its loop ends.
AfterLoopAgain == "read"

\* The loop is the function's last statement: the caller goes on.
AfterLoop == "fetch"

SyncReturn(p) ==
    /\ pc[p] = "upsert"
    /\ idx[p] > Len(snap[p])
    /\ pc' = [pc EXCEPT ![p] = AfterLoop]
    /\ ret' = [ret EXCEPT ![p] = SyncResult(p)]
    /\ UNCHANGED <<envVars, dbVars, remote, snap, idx, log, fetched, base, start, lastSave, budgetVars, uiVars, logouts, swVars, loadVars>>

\* fetchUserData: read the rows in scope and store them for offline access.
ServerCopy(row) ==
    IF variant = "V1"
    THEN Rec(<<"server", row.id[2]>>, row.id, row.payload, NoStatus)
    ELSE Rec(None, row.id, row.payload, NoStatus)

Fetched(rows) == [i \in DOMAIN rows |-> ServerCopy(rows[i])]

DefectsAfterFetch(store, rows) ==
    IF variant = "V1" THEN StoreDefects(store, Fetched(rows))
    ELSE IF variant = "V2" THEN StoreDataAll(store, Fetched(rows))
    ELSE store

\* A handler that leaves the indicator as it is.
finallySyncingKept == isSyncing

\* handleOnline's finally block: setIsSyncing(false)
finallySyncing == FALSE

fetchUserData(p) ==
    /\ pc[p] = "fetch"
    /\ \/ /\ online
          /\ defects' = DefectsAfterFetch(defects, remote)
          /\ fetched' = [fetched EXCEPT ![p] = "ok"]
       \/ /\ UNCHANGED defects
          /\ fetched' = [fetched EXCEPT ![p] = "failed"]
    /\ pc' = [pc EXCEPT ![p] = "done"]
    /\ toast' = Toast("Back Online", "All changes have been synchronized")
    /\ isSyncing' = finallySyncing
    /\ UNCHANGED <<envVars, syncQueue, remote, snap, idx, ret, log, base, start, lastSave, budgetVars, vessel, denied, logouts, swVars, loadVars>>

(* ---------------- public/service-worker.js ---------------- *)
\* The file holds two revisions of the worker: lines 1-190 (SW2, caches
\* app-cache-v2 and api-cache-v2) and lines 192-296 (SW1, one cache
\* defect-manager-v1).
Builds == {"SW2", "SW1"}

APP_CACHE == "app-cache-v2"
API_CACHE == "api-cache-v2"
CACHE_NAME == IF build = "SW2" THEN "defect-manager-v2" ELSE "defect-manager-v1"

\* A URL path is the sequence of its segments.
STATIC_ASSETS ==
    {<<>>, <<"index.html">>, <<"static", "css", "main.css">>,
     <<"static", "js", "main.js">>, <<"favicon.ico">>, <<"manifest.json">>}

urlsToCache == STATIC_ASSETS \cup {<<"logo192.png">>, <<"logo512.png">>}

API_ENDPOINTS == {<<"rest", "v1", "defects">>, <<"rest", "v1", "user_vessels">>}

\* url.includes(endpoint)
Includes(url, endpoint) ==
    \E i \in 0..Len(url) :
        /\ i + Len(endpoint) <= Len(url)
        /\ \A j \in 1..Len(endpoint) : url[i + j] = endpoint[j]

isApiRequest(url) == \E endpoint \in API_ENDPOINTS : Includes(url, endpoint)

\* The requests the pages make.
OfflinePage == <<"offline.html">>
Urls == {<<"index.html">>, OfflinePage, <<"rest", "v1", "defects">>}
Request(method, url) == [method |-> method, url |-> url]
Requests == {Request("GET", url) : url \in Urls} \cup {Request("POST", <<"rest", "v1", "defects">>)}

\* Cache names left behind by earlier versions, and by this one.
OldNames == {"app-cache-v1", "api-cache-v1", APP_CACHE}

\* A response: ok is `status in 200..299`, body tells responses apart,
\* cachedAt is its 'cached-at' header, at the time it was received.
Response(url, ok, body, cachedAt, at) ==
    [url |-> url, ok |-> ok, body |-> body, cachedAt |-> cachedAt, at |-> at,
     type |-> IF isApiRequest(url) THEN "cors" ELSE "basic"]

NoResponse == Response(<<>>, FALSE, 0, None, 0)

\* new Date(cachedAt).getTime() of a header written at time t.
Stamp(t) == <<"at", t>>

\* What fetch(request) can resolve with now; it can also reject.  Only the
\* API server is taken to send a 'cached-at' header of its own.
NetworkResponses(url) ==
    {Response(url, ok, fetches + 1, h, clock) :
        ok \in BOOLEAN,
        h \in IF isApiRequest(url) THEN {None, Stamp(clock)} ELSE {None}}

\* caches.open(name): the cache is created when it does not exist.
CachesOpen(cs, name) == IF name \in DOMAIN cs THEN cs ELSE Put(cs, name, <<>>)

\* caches.delete(name)
CachesDelete(cs, names) == [n \in DOMAIN cs \ names |-> cs[n]]

\* cache.put(request, response) on caches.open(name)
CachePut(cs, name, url, response) ==
    Put(CachesOpen(cs, name), name, Put(CachesOpen(cs, name)[name], url, response))

\* caches.match(request): the entry of the first cache that holds one.
Holders(cs, url) == {n \in DOMAIN cs : url \in DOMAIN cs[n]}

IsCached(cs, url) == Holders(cs, url) # {}

CachesMatch(cs, url) == cs[CHOOSE n \in Holders(cs, url) : TRUE][url]

\* cache.addAll(urls): every url fetched and stored, or nothing stored.
AddAll(cs, name, urls) ==
    Put(cs, name, [u \in DOMAIN cs[name] \cup urls |->
                      IF u \in urls THEN Response(u, TRUE, 0, None, clock)
                      ELSE cs[name][u]])

\* What an earlier version left in a cache of the given name.
Leftover(name) ==
    IF name \in {"api-cache-v1", API_CACHE}
    THEN Put(<<>>, <<"rest", "v1", "defects">>,
             Response(<<"rest", "v1", "defects">>, TRUE, 0, None, 0))
    ELSE Put(<<>>, <<"index.html">>, Response(<<"index.html">>, TRUE, 0, None, 0))

NoReply ==
    [method |-> "GET", url |-> <<>>, kind |-> "none", response |-> NoResponse,
     net |-> "none", live |-> NoResponse, hit |-> FALSE]

Reply(method, url, kind, response, net, live, hit) ==
    [method |-> method, url |-> url, kind |-> kind, response |-> response,
     net |-> net, live |-> live, hit |-> hit]

\* A put that goes to the shell cache whatever cache was opened.
TaskShell(name, url, response) == [cache |-> APP_CACHE, url |-> url, response |-> response]

Task(name, url, response) == [cache |-> name, url |-> url, response |-> response]

\* install: SW2 29-50, SW1 205-218.  A failed addAll is caught and logged.
Precache == IF build = "SW2" THEN STATIC_ASSETS ELSE urlsToCache

ShellCache == IF build = "SW2" THEN APP_CACHE ELSE CACHE_NAME

Installed(cs, allFetched) ==
    LET shell == CachesOpen(cs, ShellCache)
        filled == IF allFetched THEN AddAll(shell, ShellCache, Precache) ELSE shell
    IN  IF build = "SW2" THEN CachesOpen(filled, API_CACHE) ELSE filled

Install ==
    /\ phase = "parsed"
    /\ phase' = "installed"
    /\ \E allFetched \in BOOLEAN : caches' = Installed(caches, allFetched)
    /\ UNCHANGED <<appVars, loadVars, build, clock, tasks, reply, fetches, sweeps, preexisting>>

IsCurrentAnyVersion(name) ==
    name \in {APP_CACHE, API_CACHE, "app-cache-v1", "api-cache-v1",
              "defect-manager-v2", "defect-manager-v1"}

\* activate: the names the listener keeps (SW2 59, SW1 227).
IsCurrent(name) ==
    IF build = "SW2" THEN name \in {APP_CACHE, API_CACHE} ELSE name = CACHE_NAME

\* An activation that deletes the old caches and keeps every entry.
ActivatedKeepingEntries(cs) ==
    CachesDelete(cs, {n \in DOMAIN cs : ~IsCurrent(n)})

\* activate: SW2 53-81 (old caches deleted, api cache emptied), SW1 221-240.
Activated(cs) ==
    LET kept == CachesDelete(cs, {n \in DOMAIN cs : ~IsCurrent(n)})
    IN  IF build = "SW2" THEN Put(kept, API_CACHE, <<>>) ELSE kept

Activate ==
    /\ phase = "installed"
    /\ phase' = "activated"
    /\ caches' = Activated(caches)
    /\ UNCHANGED <<appVars, loadVars, build, clock, tasks, reply, fetches, sweeps, preexisting>>

MAX_AGE == 3600000
SWEEP_INTERVAL == 3600000

\* Fetch events and hours so far: one behaviour has at most MaxOps of them.
WorkerOps == fetches + clock \div SWEEP_INTERVAL

\* SW2 111-120: the network failed; the cached response, or the error again.
ApiFallbackThrow(cs, url) ==
    Reply("GET", url, "error", NoResponse, "rejected", NoResponse, IsCached(cs, url))

ApiFallback(cs, url) ==
    IF IsCached(cs, url)
    THEN Reply("GET", url, "response", CachesMatch(cs, url), "rejected", NoResponse, TRUE)
    ELSE Reply("GET", url, "error", NoResponse, "rejected", NoResponse, FALSE)

\* SW2 93-123: API requests go to the network first.  The copy is put in the
\* cache by a promise chain that the handler does not wait for.
ApiFetch(url) ==
    \/ \E r \in NetworkResponses(url) :
        /\ tasks' = tasks \cup {Task(API_CACHE, url, r)}
        /\ reply' = Reply("GET", url, "response", r, "resolved", r, IsCached(caches, url))
    \/ /\ reply' = ApiFallback(caches, url)
       /\ UNCHANGED tasks

\* SW2 158-162: caches.match('/offline.html'), undefined when nothing matches.
OfflineFallback(cs, url) ==
    IF IsCached(cs, OfflinePage)
    THEN Reply("GET", url, "response", CachesMatch(cs, OfflinePage), "rejected", NoResponse, FALSE)
    ELSE Reply("GET", url, "undefined", NoResponse, "rejected", NoResponse, FALSE)

\* SW2 126-157: other GET requests are answered from the cache when it has
\* the request, and from the network otherwise.
StaticFetch(url) ==
    IF IsCached(caches, url)
    THEN \/ \E r \in NetworkResponses(url) :
             /\ tasks' = tasks \cup {Task(APP_CACHE, url, r)}
             /\ reply' = Reply("GET", url, "response", CachesMatch(caches, url), "resolved", r, TRUE)
         \/ /\ reply' = Reply("GET", url, "response", CachesMatch(caches, url), "rejected", NoResponse, TRUE)
            /\ UNCHANGED tasks
    ELSE \/ \E r \in NetworkResponses(url) :
             /\ tasks' = IF r.ok THEN tasks \cup {Task(APP_CACHE, url, r)} ELSE tasks
             /\ reply' = Reply("GET", url, "response", r, "resolved", r, FALSE)
         \/ /\ reply' = OfflineFallback(caches, url)
            /\ UNCHANGED tasks

\* SW1 250-288: cache first; a failed fetch is logged and nothing is returned.
FetchV1(url) ==
    IF IsCached(caches, url)
    THEN /\ reply' = Reply("GET", url, "response", CachesMatch(caches, url), "none", NoResponse, TRUE)
         /\ UNCHANGED tasks
    ELSE \/ \E r \in NetworkResponses(url) :
             /\ tasks' = IF r.ok /\ r.type = "basic"
                         THEN tasks \cup {Task(CACHE_NAME, url, r)} ELSE tasks
             /\ reply' = Reply("GET", url, "response", r, "resolved", r, FALSE)
         \/ /\ reply' = Reply("GET", url, "undefined", NoResponse, "rejected", NoResponse, FALSE)
            /\ UNCHANGED tasks

\* The fetch listener: SW2 84-164, SW1 243-289.
FetchEvent(method, url) ==
    /\ phase = "activated"
    /\ WorkerOps < MaxOps
    /\ fetches' = fetches + 1
    /\ IF method # "GET"
       THEN /\ reply' = Reply(method, url, "passthrough", NoResponse, "none", NoResponse, FALSE)
            /\ UNCHANGED tasks
       ELSE IF build = "SW1" THEN FetchV1(url)
       ELSE IF isApiRequest(url) THEN ApiFetch(url)
       ELSE StaticFetch(url)
    /\ UNCHANGED <<appVars, loadVars, build, phase, caches, clock, sweeps, preexisting>>

\* A cache.put started by a fetch event settles: the entry is written.
Settle(t) ==
    /\ t \in tasks
    /\ tasks' = tasks \ {t}
    /\ caches' = CachePut(caches, t.cache, t.url, t.response)
    /\ UNCHANGED <<appVars, loadVars, build, phase, clock, reply, fetches, sweeps, preexisting>>

\* SW2 181-182: cachedAt && Date.now() - new Date(cachedAt).getTime() > 3600000
Expired(response, t) ==
    /\ response.cachedAt # None
    /\ t - response.cachedAt[2] > MAX_AGE

\* SW2 175-189: one run of the cleanup over the api cache.
Swept(cs, t) ==
    LET api == CachesOpen(cs, API_CACHE)
    IN  Put(api, API_CACHE,
            [u \in {x \in DOMAIN api[API_CACHE] : ~Expired(api[API_CACHE][x], t)} |->
                api[API_CACHE][u]])

\* SW2 174-190: the interval elapses and the callback runs.
Cleanup ==
    /\ build = "SW2"
    /\ phase = "activated"
    /\ WorkerOps < MaxOps
    /\ clock' = clock + SWEEP_INTERVAL
    /\ sweeps' = sweeps + 1
    /\ caches' = Swept(caches, clock')
    /\ UNCHANGED <<appVars, loadVars, build, phase, tasks, reply, fetches, preexisting>>

\* An hour passes while the worker is stopped (or has no timer: SW1).
Elapse ==
    /\ phase = "activated"
    /\ WorkerOps < MaxOps
    /\ clock' = clock + SWEEP_INTERVAL
    /\ UNCHANGED <<appVars, loadVars, build, phase, caches, tasks, reply, fetches, sweeps, preexisting>>

IdleWorker ==
    /\ build = "SW2"
    /\ phase = "parsed"
    /\ caches = <<>>
    /\ clock = 0
    /\ tasks = {}
    /\ reply = NoReply
    /\ fetches = 0
    /\ sweeps = 0
    /\ preexisting = {}

\* retryOperation's promise: pending, resolved with the operation's result,
\* or rejected with an error.  A result or an error is <<kind, attempt>>.
Settled(state, value) == [state |-> state, value |-> value]

\* The module has run and loadData has called retryOperation.
Loaded ==
    /\ refreshing = FALSE
    /\ reloads = 0
    /\ changes = 0
    /\ loads = 1
    /\ attempt = 0
    /\ errors = <<>>
    /\ waits = <<>>
    /\ settled = Settled("pending", None)

NoRec == Rec(None, None, "", NoStatus)

\* The page and its handlers before anything has run.
InitPage ==
    /\ pc = [p \in Procs |-> "idle"]
    /\ snap = [p \in Procs |-> <<>>]
    /\ idx = [p \in Procs |-> 1]
    /\ ret = [p \in Procs |-> NotReturned]
    /\ log = [p \in Procs |-> <<>>]
    /\ fetched = [p \in Procs |-> "none"]
    /\ base = [p \in Procs |-> [read |-> FALSE, empty |-> FALSE, alone |-> FALSE, synced |-> <<>>]]
    /\ start = [defects |-> <<>>, syncQueue |-> <<>>, remote |-> <<>>]
    /\ lastSave = [input |-> NoRec, online |-> FALSE, outcome |-> "none", value |-> NoRec,
                   remote |-> "none", during |-> {}]
    /\ saves = 0
    /\ events = 0
    /\ toast = NoToast
    /\ isSyncing = FALSE
    /\ vessel = "none"
    /\ denied = 0
    /\ logouts = 0
    /\ Loaded

\* A database that an earlier session left: one defect, saved while online.
FirstDefect ==
    IF variant = "V1" THEN Rec(None, None, "leak", NoStatus)
    ELSE Rec(None, <<"temp", 1>>, "leak", "synced")

StoredBefore ==
    [remote |-> RemoteUpsert(<<>>, FirstDefect),
     defects |-> IF variant = "V1" THEN StoreDefect(<<>>, RemoteRow(<<>>, FirstDefect))
                 ELSE IF variant = "V2" THEN StoreData(<<>>, RemoteRow(<<>>, FirstDefect))
                 ELSE Put(<<>>, FirstDefect.id, FirstDefect)]

\* The key a defect is stored under: localId (V1), id (V2, V3).
Key(d) == IF variant = "V1" THEN d.localId ELSE d.id

\* A database that an earlier session left while offline: one defect saved
\* and then edited, both before any time this session reads.
PendingDefect(p) ==
    IF variant = "V1" THEN Rec(<<"local", 1>>, None, p, "pending")
    ELSE Rec(None, <<"temp", 1>>, p, "pending")

PendingBefore ==
    [defects |-> Put(<<>>, Key(PendingDefect("leak, repaired")), PendingDefect("leak, repaired")),
     syncQueue |-> IF variant = "V1" THEN <<>>
                   ELSE Put(Put(<<>>, QueueKey(-2), QueueEntry(PendingDefect("leak"), -2)),
                            QueueKey(-1), QueueEntry(PendingDefect("leak, repaired"), -1))]

InitApp ==
    /\ variant \in Variants
    /\ online \in BOOLEAN
    /\ defects = <<>>
    /\ syncQueue = <<>>
    /\ remote = <<>>
    /\ InitPage

\* The page opens on a database that holds one synced defect.
InitStored ==
    /\ variant \in Variants
    /\ online \in BOOLEAN
    /\ defects = StoredBefore.defects
    /\ syncQueue = <<>>
    /\ remote = StoredBefore.remote
    /\ InitPage
    /\ IdleWorker

\* The page opens on a database that holds one defect saved offline twice.
InitPending ==
    /\ variant \in Variants
    /\ online \in BOOLEAN
    /\ defects = PendingBefore.defects
    /\ syncQueue = PendingBefore.syncQueue
    /\ remote = <<>>
    /\ InitPage
    /\ IdleWorker

Init == InitApp /\ IdleWorker

Next ==
    \/ GoOffline
    \/ \E d \in Inputs : \E v \in Vessels : handleSaveDefect(d, v)
    \/ \E p \in Procs : OnlineEvent(p)
    \/ \E p \in Procs : SyncGuard(p)
    \/ \E p \in Procs : SyncRead(p)
    \/ \E p \in Procs : SyncUpsert(p)
    \/ \E p \in Procs : SyncStore(p)
    \/ \E p \in Procs : SyncReturn(p)
    \/ \E p \in Procs : fetchUserData(p)

Spec == Init /\ [][Next]_vars

SpecStored == InitStored /\ [][Next]_vars

SpecPending == InitPending /\ [][Next]_vars

\* One step of the syncWithServer call of p.
SyncStep(p) == SyncGuard(p) \/ SyncRead(p) \/ SyncUpsert(p) \/ SyncStore(p) \/ SyncReturn(p)

\* Every awaited request of a running cycle settles and the cycle goes on.
SpecDrain == Init /\ [][Next]_vars /\ \A p \in Procs : WF_<<pc, idx>>(SyncStep(p))

\* The worker alone: the page's store stays as it starts.
InitSW ==
    /\ InitApp
    /\ variant = "V1"
    /\ online
    /\ build \in Builds
    /\ phase = "parsed"
    /\ preexisting \in SUBSET OldNames
    /\ caches = [n \in preexisting |-> Leftover(n)]
    /\ clock = 0
    /\ tasks = {}
    /\ reply = NoReply
    /\ fetches = 0
    /\ sweeps = 0

NextSW ==
    \/ Install
    \/ Activate
    \/ \E request \in Requests : FetchEvent(request.method, request.url)
    \/ \E t \in tasks : Settle(t)
    \/ Cleanup
    \/ Elapse

SpecSW == InitSW /\ [][NextSW]_vars

\* The worker is installed over caches that carry its own names: an earlier
\* build that used the same cache names left them.
InitSWKept ==
    /\ InitApp
    /\ variant = "V1"
    /\ online
    /\ build = "SW2"
    /\ phase = "parsed"
    /\ preexisting \in {{API_CACHE}, {API_CACHE, APP_CACHE}, {API_CACHE, "api-cache-v1"}}
    /\ caches = [n \in preexisting |-> Leftover(n)]
    /\ clock = 0
    /\ tasks = {}
    /\ reply = NoReply
    /\ fetches = 0
    /\ sweeps = 0

SpecSWKept == InitSWKept /\ [][NextSW]_vars

(* ---------------- page load: retryOperation, controllerchange ---------------- *)
\* retryOperation(operation, maxRetries = 3)
maxRetries == 3

\* What the operation can throw: withTimeout's error, or the backend's.
OperationErrors == {"timeout", "network"}

\* A backoff that does not grow.
BackoffFixed(n) == 1000

\* const delay = 1000 * Math.pow(2, attempt)
Backoff(n) == 1000 * 2^n

\* Events of the page so far: one behaviour has at most MaxOps of them.
LoadOps == changes + loads - 1

\* One iteration of retryOperation's loop: the operation is called; its
\* result is returned, or its error is rethrown on the last attempt, or the
\* loop waits and goes on.
retryOperation ==
    /\ settled.state = "pending"
    /\ attempt < maxRetries
    /\ \/ /\ settled' = Settled("resolved", <<"result", attempt>>)
          /\ UNCHANGED <<attempt, errors, waits>>
       \/ \E e \in OperationErrors :
             /\ errors' = Append(errors, <<e, attempt>>)
             /\ IF attempt = maxRetries - 1
                THEN /\ settled' = Settled("rejected", <<e, attempt>>)
                     /\ UNCHANGED <<attempt, waits>>
                ELSE /\ waits' = Append(waits, Backoff(attempt))
                     /\ attempt' = attempt + 1
                     /\ UNCHANGED settled
    /\ UNCHANGED <<appVars, swVars, refreshing, reloads, changes, loads>>

\* A listener that reloads on every event.
ShouldReloadAlways == TRUE

\* if (!refreshing)
ShouldReload == ~refreshing

\* navigator.serviceWorker 'controllerchange': reload once.
controllerchange ==
    /\ LoadOps < MaxOps
    /\ changes' = changes + 1
    /\ IF ShouldReload
       THEN refreshing' = TRUE /\ reloads' = reloads + 1
       ELSE UNCHANGED <<refreshing, reloads>>
    /\ UNCHANGED <<appVars, swVars, loads, attempt, errors, waits, settled>>

\* The reload takes effect: the document is replaced and its scripts run
\* again, the module's flag and loadData's retry with them.
Reloaded ==
    /\ reloads > 0
    /\ LoadOps < MaxOps
    /\ loads' = loads + 1
    /\ refreshing' = FALSE
    /\ reloads' = 0
    /\ attempt' = 0
    /\ errors' = <<>>
    /\ waits' = <<>>
    /\ settled' = Settled("pending", None)
    /\ UNCHANGED <<appVars, swVars, changes>>

NextLoad ==
    \/ retryOperation
    \/ controllerchange
    \/ Reloaded

SpecLoad == Init /\ [][NextLoad]_vars

(* ---------------- logout ---------------- *)
clearedStoresDefectsOnly == {"defects"}

\* clearAll: the object stores it clears (V1 150-162: 'defects'; V2 392-406
\* and part_002 139-152: every store).
clearedStores == IF variant = "V1" THEN {"defects"} ELSE {"defects", "syncQueue"}

Cleared(name, store) == IF name \in clearedStores THEN <<>> ELSE store

\* offlineSync.clearAll()
clearAll ==
    /\ defects' = Cleared("defects", defects)
    /\ syncQueue' = Cleared("syncQueue", syncQueue)

\* clearAppCache: caches.keys(), then caches.delete for every name.
clearAppCache(cs) == CachesDelete(cs, DOMAIN cs)

\* A handler that clears the stores although the sign-out failed.
signOutFailedClears == clearAll

\* if (error) throw error: the handler goes to its catch, clearAll is skipped.
signOutFailed == UNCHANGED dbVars

\* handleLogout: the caches are deleted, then sign out, then clear the local
\* data.  The user who signs in again is the same user.
handleLogout ==
    /\ PageOps < MaxOps
    /\ logouts' = logouts + 1
    /\ caches' = clearAppCache(caches)
    /\ \/ /\ clearAll
          /\ toast' = Toast("Logged Out", "Successfully logged out and cleared cache")
       \/ /\ signOutFailed
          /\ toast' = Toast("Error", "Failed to logout properly")
    /\ UNCHANGED <<envVars, remote, procVars, base, start, lastSave, budgetVars,
                   isSyncing, vessel, denied,
                   build, phase, clock, tasks, reply, fetches, sweeps, preexisting, loadVars>>

NextLogout ==
    \/ Next
    \/ handleLogout

SpecLogout == Init /\ [][NextLogout]_vars

(* ---------------- saves whose IndexedDB write fails ---------------- *)
\* How IndexedDB fails: opening the database or the transaction throws
\* ("open", inside the method's try block, awaited), or a request of the
\* transaction fails later and rejects the promise the method has returned
\* ("request").
Faults == {"open", "request"}

\* How a call settles: the promise's outcome and what it carries.
Resolved(v) == [outcome |-> "resolved", value |-> v]
Rejected == [outcome |-> "rejected", value |-> "error"]

\* storeDefects (V1 33-59), storeData (V2 217-266, which rethrows) and the
\* put of V3's saveDefect (part_002 82-84) when the store fails.
storeDefectsFailed(fault) ==
    IF variant = "V1" /\ fault = "open" THEN Resolved("input") ELSE Rejected

\* getDefects when the store fails: V1 61-76, V2 268-283, part_002 126-130.
getDefectsFailed(fault) ==
    IF variant = "V3"
    THEN IF fault = "open" THEN Rejected ELSE Resolved("undefined")
    ELSE IF fault = "open" THEN Resolved("empty") ELSE Rejected

\* getPendingSyncCount when the store fails: V1 140-148 awaits getDefects
\* inside its try; V2 366-381; part_002 132-137.
getPendingSyncCountFailed(fault) ==
    IF variant = "V1" THEN Resolved("zero")
    ELSE IF variant = "V2" THEN (IF fault = "open" THEN Resolved("zero") ELSE Rejected)
    ELSE IF fault = "open" THEN Rejected ELSE Resolved("undefined")

\* clearAll when the store fails: V1 150-162, V2 392-406 (rethrows),
\* part_002 139-152.
clearAllFailed(fault) ==
    IF variant = "V1" THEN (IF fault = "open" THEN Resolved("undefined") ELSE Rejected)
    ELSE IF variant = "V2" THEN Rejected
    ELSE IF fault = "open" THEN Rejected ELSE Resolved("undefined")

\* V1: saveDefect awaits storeDefects inside its try; when that rejects the
\* catch returns the defect it was given.
saveDefectFault(d) ==
    /\ variant = "V1"
    /\ \E fault \in Faults :
        LET stored == storeDefectsFailed(fault).outcome = "resolved"
        IN  IF online
            THEN \/ /\ remote' = RemoteUpsert(remote, d)
                    /\ lastSave' = Saved(d, "resolved",
                                         IF stored THEN RemoteRow(remote, d) ELSE d, "ok")
                 \/ /\ UNCHANGED remote
                    /\ lastSave' = Saved(d, "resolved", d, "failed")
            ELSE /\ lastSave' = Saved(d, "resolved",
                                      IF stored THEN defectWithId(d) ELSE d, "none")
                 /\ UNCHANGED remote
    /\ UNCHANGED <<envVars, dbVars, procVars, start, events, isSyncing, logouts, swVars, loadVars>>

\* V2: storeData rethrows, and saveDefect rethrows in turn.  Offline the
\* write of the defect or the write of the queue entry fails.
saveDefectV2Fault(d) ==
    /\ variant = "V2"
    /\ IF online
       THEN /\ remote' = RemoteUpsert(remote, defectWithMeta(d))
            /\ lastSave' = Saved(d, "rejected", d, "ok")
            /\ UNCHANGED dbVars
       ELSE /\ \/ UNCHANGED defects
               \/ defects' = StoreData(defects, defectWithMeta(d))
            /\ lastSave' = Saved(d, "rejected", d, "none")
            /\ UNCHANGED <<syncQueue, remote>>
    /\ UNCHANGED <<envVars, procVars, start, events, isSyncing, logouts, swVars, loadVars>>

\* V3: the put rejects, nothing is stored or sent, and saveDefect rethrows.
saveDefectV3Fault(d) ==
    /\ variant = "V3"
    /\ d.id # None
    /\ lastSave' = Saved(d, "rejected", d, "none")
    /\ UNCHANGED <<envVars, dbVars, remote, procVars, start, events, isSyncing, logouts, swVars, loadVars>>

handleSaveDefectFault(d) ==
    /\ PageOps < MaxOps
    /\ vessel' \in assignedVessels
    /\ saves' = saves + 1
    /\ base' = Disturbed
    /\ saveDefectFault(d) \/ saveDefectV2Fault(d) \/ saveDefectV3Fault(d)
    /\ toast' = SaveToast(lastSave'.outcome)
    /\ UNCHANGED denied

NextFault ==
    \/ Next
    \/ \E d \in Inputs : handleSaveDefectFault(d)

SpecFault == Init /\ [][NextFault]_vars

(* ---------------- no edit after the first 'online' event ---------------- *)
QuietEvent(p) ==
    /\ Arrive(p)
    /\ start' = IF events = 0 THEN Stores ELSE start

QuietSave(d) ==
    /\ events = 0
    /\ \E v \in Vessels : handleSaveDefect(d, v)

NextQuiet ==
    \/ GoOffline
    \/ \E d \in Inputs : QuietSave(d)
    \/ \E p \in Procs : QuietEvent(p)
    \/ \E p \in Procs : SyncGuard(p)
    \/ \E p \in Procs : SyncRead(p)
    \/ \E p \in Procs : SyncUpsert(p)
    \/ \E p \in Procs : SyncStore(p)
    \/ \E p \in Procs : SyncReturn(p)
    \/ \E p \in Procs : fetchUserData(p)

SpecQuiet == Init /\ [][NextQuiet]_vars

\* One handleOnline run on its own, every remote call succeeding.
RECURSIVE DrainAll(_, _)
DrainAll(st, items) ==
    IF items = <<>> THEN st
    ELSE DrainAll([defects |-> DefectsAfterUpsert(st.defects, Head(items)),
                   syncQueue |-> QueueAfterUpsert(st.syncQueue, Head(items)),
                   remote |-> RemoteUpsert(st.remote, Sent(Head(items)))],
                  Tail(items))

OneEvent(st) ==
    LET d == DrainAll(st, Snapshot(st.defects, st.syncQueue))
    IN [d EXCEPT !.defects = DefectsAfterFetch(d.defects, d.remote)]

(* ---------------- observations used by the properties ---------------- *)
\* The identities the mutation queue holds entries for.
QueuedKeys ==
    {Key(Sent(Snapshot(defects, syncQueue)[i])) : i \in DOMAIN Snapshot(defects, syncQueue)}

\* The drain cycle of p has returned.
Returned(p) == pc[p] \in {"fetch", "done"} /\ base[p].read

AllOk(p) == \A i \in DOMAIN log[p] : log[p][i].ok

\* The drain cycle of p has just returned, and nothing ran beside it.
JustDrainedAlone(p) == pc[p] = "fetch" /\ base[p].read /\ base[p].alone

KeysSent(p) == {Key(Sent(log[p][i].item)) : i \in DOMAIN log[p]}

(* ---------------- C1 ---------------- *)
AlreadyPending(d) ==
    d.localId \in DOMAIN defects /\ defects[d.localId].syncStatus = "pending"

C2_OneEntryPerRecord ==
    /\ \A i, j \in DOMAIN Snapshot(defects, syncQueue) :
          Key(Sent(Snapshot(defects, syncQueue)[i])) = Key(Sent(Snapshot(defects, syncQueue)[j]))
             => i = j
    /\ \A p \in Procs : \A i, j \in DOMAIN log[p] :
          Key(Sent(log[p][i].item)) = Key(Sent(log[p][j].item)) => i = j
    /\ \A p \in Procs : \A i \in DOMAIN snap[p] :
          (pc[p] \in {"upsert", "store"} /\ base[p].alone /\ Key(Sent(snap[p][i])) \in DOMAIN defects)
             => Sent(snap[p][i]).payload = defects[Key(Sent(snap[p][i]))].payload

(* ---------------- C3 ---------------- *)
\* C3: after a drain cycle in which every upsert succeeded, the pending count
\* is 0 and every record of the cycle is stored with sync status 'synced'.
C3_DrainSyncsAll ==
    \A p \in Procs :
        (JustDrainedAlone(p) /\ AllOk(p)) =>
            /\ getPendingSyncCount = 0
            /\ \A i \in DOMAIN snap[p] :
                  /\ Key(Sent(snap[p][i])) \in DOMAIN defects
                  /\ defects[Key(Sent(snap[p][i]))].syncStatus = "synced"

(* ---------------- C4 ---------------- *)
\* C4: a stored record has sync status 'pending' exactly when the mutation
\* queue holds an entry with its identity.
C4_PendingIffQueued ==
    \A k \in DOMAIN defects : (defects[k].syncStatus = "pending") <=> (k \in QueuedKeys)

(* ---------------- C5 ---------------- *)
\* C5 (V1): after a successful drain the record saved offline is stored once,
\* synced, and carries the id the backend assigned to it.
C5_DrainedCarriesServerId ==
    \A p \in Procs :
        (variant = "V1" /\ JustDrainedAlone(p) /\ AllOk(p)) =>
            \A i \in DOMAIN snap[p] :
                /\ Key(Sent(snap[p][i])) \in DOMAIN defects
                /\ defects[Key(Sent(snap[p][i]))].syncStatus = "synced"
                /\ defects[Key(Sent(snap[p][i]))].id # None
                /\ \E r \in DOMAIN remote : remote[r].id = defects[Key(Sent(snap[p][i]))].id

C7_NoDoubleDrain ==
    \A p, q \in Procs :
        (p # q /\ pc[p] \in {"upsert", "store"} /\ pc[q] \in {"upsert", "store"})
            => KeysSent(p) \cap KeysSent(q) = {}

(* ---------------- C8 ---------------- *)
\* handleOnline run p drained its whole snapshot and fetched, without a failure.
FullRun(p) == pc[p] = "done" /\ base[p].read /\ AllOk(p) /\ fetched[p] = "ok"

C9_EveryEntryAttempted ==
    \A p \in Procs :
        Returned(p) =>
            /\ Len(log[p]) = Len(snap[p])
            /\ \A i \in DOMAIN snap[p] : log[p][i].item = snap[p][i]

\* A cycle over two entries whose first upsert failed has returned.
C9_Witness ==
    \E p \in Procs :
        /\ Returned(p)
        /\ Len(snap[p]) = 2
        /\ Len(log[p]) = 2
        /\ ~log[p][1].ok

(* ---------------- C10 ---------------- *)
\* C10: after a drain cycle, an entry whose upsert failed is still queued,
\* unchanged, and the records whose upsert succeeded are synced.
C10_FailedStaysQueued ==
    \A p \in Procs :
        JustDrainedAlone(p) =>
            \A i \in DOMAIN log[p] :
                IF log[p][i].ok
                THEN /\ Key(Sent(log[p][i].item)) \in DOMAIN defects
                     /\ defects[Key(Sent(log[p][i].item))].syncStatus = "synced"
                ELSE \E j \in DOMAIN Snapshot(defects, syncQueue) :
                        Snapshot(defects, syncQueue)[j] = log[p][i].item

(* ---------------- C11 ---------------- *)
\* The record of the last save has been sent to the backend by some cycle.
EditSent ==
    \E q \in Procs : \E i \in DOMAIN log[q] : Sent(log[q][i].item) = lastSave.value

\* The last save was made offline while the drain cycle of p was in flight,
\* that cycle has just returned, and no cycle has sent the saved record.
EditedDuring(p) ==
    /\ lastSave.outcome = "resolved"
    /\ ~lastSave.online
    /\ p \in lastSave.during
    /\ pc[p] = "fetch"
    /\ ~EditSent

\* C11: an edit saved while a drain cycle is in flight survives that cycle:
\* once the cycle has returned the store holds the edit, still 'pending', and
\* the next cycle's snapshot contains it.
C11_EditDuringDrainKept ==
    \A p \in Procs :
        EditedDuring(p) =>
            /\ Key(lastSave.value) \in DOMAIN defects
            /\ defects[Key(lastSave.value)] = lastSave.value
            /\ lastSave.value.syncStatus = "pending"
            /\ \E j \in DOMAIN Snapshot(defects, syncQueue) :
                  Sent(Snapshot(defects, syncQueue)[j]) = lastSave.value

(* ---------------- C12 ---------------- *)
\* C12: a saveDefect call made offline resolves, and its value is the record
\* tagged 'pending', whether or not the local write succeeds.
C12_OfflineSaveResolves ==
    (lastSave.outcome # "none" /\ ~lastSave.online) =>
        /\ lastSave.outcome = "resolved"
        /\ lastSave.value.syncStatus = "pending"
        /\ lastSave.value.payload = lastSave.input.payload

(* ---------------- C13 ---------------- *)
\* C13: a save made online whose remote write fails leaves the record in the
\* store with sync status 'pending' and queued for the next drain cycle.
C13_FailedOnlineSavePending ==
    [][(saves' = saves + 1 /\ lastSave'.online /\ lastSave'.remote = "failed") =>
            \E k \in DOMAIN defects' :
                /\ defects'[k].payload = lastSave'.input.payload
                /\ defects'[k].syncStatus = "pending"
                /\ k \in QueuedKeys']_vars

\* The api cache as a sweep finds it.
ApiEntries == CachesOpen(caches, API_CACHE)[API_CACHE]

\* C14: after a sweep pass over the api cache, every entry captured more
\* than the max-age (one hour) before the sweep is absent and every entry
\* captured within the max-age is still present.
C14_SweepEvictsByAge ==
    [][(sweeps' = sweeps + 1) =>
            \A u \in DOMAIN ApiEntries :
                IF clock' - ApiEntries[u].at > MAX_AGE
                THEN u \notin DOMAIN caches'[API_CACHE]
                ELSE /\ u \in DOMAIN caches'[API_CACHE]
                     /\ caches'[API_CACHE][u] = ApiEntries[u]]_vars

\* C15: once a worker version is activated, the only cache partitions that
\* exist are the ones named for that version; every partition with another
\* name that existed before is gone, whatever partitions existed before.
C15_OnlyCurrentPartitions ==
    phase = "activated" =>
        /\ DOMAIN caches \subseteq
               (IF build = "SW2" THEN {"app-cache-v2", "api-cache-v2"} ELSE {"defect-manager-v1"})
        /\ \A n \in preexisting :
               n \in {"app-cache-v1", "api-cache-v1"} => n \notin DOMAIN caches

C15_Witness ==
    /\ phase = "activated"
    /\ build = "SW2"
    /\ preexisting = {"app-cache-v1", "api-cache-v1", "app-cache-v2"}
    /\ DOMAIN caches = {"app-cache-v2", "api-cache-v2"}

\* The fetch event of this step: a GET of the given class handled by SW2.
Handled(api) ==
    /\ fetches' = fetches + 1
    /\ build = "SW2"
    /\ reply'.method = "GET"
    /\ isApiRequest(reply'.url) = api

\* C16: for a GET of an API request the network is tried first; when the
\* network fetch fails the page receives the response cached for that very
\* request if there is one, and the failure itself if there is none.
C16_ApiNetworkFirst ==
    [][Handled(TRUE) =>
            /\ reply'.net \in {"resolved", "rejected"}
            /\ reply'.net = "resolved" =>
                   reply'.kind = "response" /\ reply'.response = reply'.live
            /\ reply'.net = "rejected" =>
                   IF reply'.url \in DOMAIN ApiEntries
                   THEN reply'.kind = "response" /\ reply'.response = ApiEntries[reply'.url]
                   ELSE reply'.kind = "error"]_vars

C16_Witness ==
    /\ build = "SW2"
    /\ reply.method = "GET"
    /\ isApiRequest(reply.url)
    /\ reply.net = "rejected"
    /\ reply.kind = "response"
    /\ reply.url \in DOMAIN ApiEntries
    /\ reply.response = ApiEntries[reply.url]

\* C17: the copy of an API response that the fetch listener stores is
\* tagged with the time it was captured: every entry of the api cache
\* carries a captured-at marker.
C17_ApiEntriesStamped ==
    build = "SW2" => \A u \in DOMAIN ApiEntries : ApiEntries[u].cachedAt # None

\* The shell cache of SW2.
ShellEntries == CachesOpen(caches, APP_CACHE)[APP_CACHE]

\* C18: a shell request that is in the cache is answered with the cached
\* copy, and the entry is overwritten only by a refetch that succeeded: a
\* good entry is never replaced by an error response.
C18_RevalidateKeepsGoodEntry ==
    [][build = "SW2" =>
            /\ (Handled(FALSE) /\ reply'.hit) =>
                   /\ reply'.kind = "response"
                   /\ reply'.response = ShellEntries[reply'.url]
            /\ \A u \in DOMAIN ShellEntries :
                   (ShellEntries[u].ok /\ u \in DOMAIN ShellEntries') => ShellEntries'[u].ok]_vars

\* C19: a shell request that misses the cache is fetched from the network;
\* when the response is successful its cache entry is in place by the time
\* the page receives the response, and an unsuccessful response is handed
\* over without being cached.
C19_MissCachedBeforeReturn ==
    [][(Handled(FALSE) /\ ~reply'.hit /\ reply'.net = "resolved") =>
            /\ reply'.kind = "response"
            /\ reply'.response = reply'.live
            /\ IF reply'.live.ok
               THEN /\ reply'.url \in DOMAIN ShellEntries'
                    /\ ShellEntries'[reply'.url] = reply'.live
               ELSE /\ reply'.url \notin DOMAIN ShellEntries'
                    /\ \A t \in tasks' : t.response # reply'.live]_vars

\* C20: a shell request with no cached copy and a failing network is
\* always answered with the fallback response, never with no response.
C20_FallbackAlwaysServed ==
    (/\ build = "SW2"
     /\ reply.method = "GET"
     /\ reply.kind # "none"
     /\ ~isApiRequest(reply.url)
     /\ ~reply.hit
     /\ reply.net = "rejected") => reply.kind = "response"

\* This step is a handleSaveDefect call for a vessel outside the user's scope.
OutOfScopeSave ==
    /\ saves' = saves + 1 \/ denied' = denied + 1
    /\ vessel' \notin assignedVessels

\* C21: a save for a vessel outside the caller's scope performs no remote
\* write, stores nothing, leaves the pending count as it was and shows the
\* error; saveDefect is not called, so nothing is left to retry.
C21_OutOfScopeSaveRefused ==
    [][OutOfScopeSave =>
            /\ remote' = remote
            /\ defects' = defects
            /\ syncQueue' = syncQueue
            /\ getPendingSyncCount' = getPendingSyncCount
            /\ saves' = saves
            /\ toast' = Toast("Error", "Not authorized for this vessel")]_vars

C21_Witness ==
    /\ denied > 0
    /\ vessel \notin assignedVessels
    /\ toast = Toast("Error", "Not authorized for this vessel")
    /\ getPendingSyncCount > 0

\* The records storeDefects is given: what the dialog hands over, and a
\* row as loadData fetched it, which has an id and no localId.
StoreInputs == Inputs \cup {Rec(None, <<"srv", 1>>, "leak", NoStatus)}

\* C22: storing the same record twice leaves the store as storing it once
\* does; the second call adds no record.
C22_StoreTwiceAsOnce ==
    variant = "V1" =>
        \A d \in StoreInputs :
            /\ StoreDefects(StoreDefects(defects, <<d>>), <<d>>) = StoreDefects(defects, <<d>>)
            /\ Cardinality(DOMAIN StoreDefects(StoreDefects(defects, <<d>>), <<d>>))
                   = Cardinality(DOMAIN StoreDefects(defects, <<d>>))

\* C23: a failure of the local store never aborts the caller: storeDefects
\* resolves with the records it was given, getDefects with an empty
\* sequence, getPendingSyncCount with 0, and clearAll resolves.
C23_StoreFailureNeverRejects ==
    \A fault \in Faults :
        /\ storeDefectsFailed(fault) = Resolved("input")
        /\ getDefectsFailed(fault) = Resolved("empty")
        /\ getPendingSyncCountFailed(fault) = Resolved("zero")
        /\ clearAllFailed(fault).outcome = "resolved"

\* C24: once clearAll has completed, getDefects() returns an empty
\* sequence and getPendingSyncCount() returns 0, whatever was stored.
C24_ClearAllEmpties ==
    [][(logouts' = logouts + 1 /\ toast'.title = "Logged Out") =>
            /\ getDefects' = <<>>
            /\ getPendingSyncCount' = 0]_vars

C24_Witness ==
    /\ logouts > 0
    /\ toast.title = "Logged Out"
    /\ lastSave.outcome = "resolved"
    /\ ~lastSave.online
    /\ getDefects = <<>>
    /\ getPendingSyncCount = 0

\* C25: records are destroyed only by the full clear: no save, store,
\* fetch-and-store or drain step removes a key from the 'defects' store;
\* the set of stored keys only grows until clearAll is called.
C25_OnlyClearRemoves ==
    [][(DOMAIN defects \subseteq DOMAIN defects') \/ (logouts' = logouts + 1)]_vars

C25_Witness ==
    /\ logouts = 0
    /\ Cardinality(DOMAIN defects) >= 2
    /\ \E p \in Procs : pc[p] = "done" /\ fetched[p] = "ok" /\ Len(log[p]) > 0

\* C26: within one drain cycle the pending entries are sent in the order
\* of their offline saves: the entry saved last is the last one sent.
C26_DrainInEnqueueOrder ==
    \A p \in Procs : \A i \in DOMAIN log[p] :
        (/\ lastSave.outcome = "resolved"
         /\ ~lastSave.online
         /\ Sent(log[p][i].item) = lastSave.value) => i = Len(snap[p])

\* handleOnline has started for p and has not reached the end of its
\* finally block.
Running(p) == ~Idle(p)

Attempts(p, k) == Cardinality({i \in DOMAIN log[p] : Key(Sent(log[p][i].item)) = k})

\* No upsert of the record stored under k has reached the backend.
NeverUpserted(k) ==
    /\ \A p \in Procs : \A i \in DOMAIN log[p] : Key(Sent(log[p][i].item)) = k => ~log[p][i].ok
    /\ \A i \in DOMAIN remote : remote[i].id # k /\ remote[i].lid # k

\* C28: there is no retry cap.  A pending record whose upsert has failed in
\* every drain cycle so far is still pending, and every later cycle that ran
\* to its end undisturbed has attempted it exactly once.
C28_FailedRetriedOncePerCycle ==
    \A p \in Procs : \A k \in KeysSent(p) :
        NeverUpserted(k) =>
            /\ k \in QueuedKeys
            /\ \A q \in Procs :
                   (p < q /\ Returned(q) /\ base[q].alone) => Attempts(q, k) = 1

\* C29: every drain cycle terminates, as one pass over the snapshot of
\* pending entries read at its start: the snapshot is not read again, the
\* i-th upsert of the cycle is for the i-th snapshot entry, so each entry
\* gets at most one upsert and an entry that became pending later gets none;
\* and after every moment comes one at which no syncWithServer call is
\* between its start and its return, so every call that started has returned.
C29_DrainIsOnePass ==
    /\ [](\A p \in Procs :
            /\ Len(log[p]) <= Len(snap[p])
            /\ \A i \in DOMAIN log[p] : log[p][i].item = snap[p][i])
    /\ [][\A p \in Procs :
            /\ (pc[p] = "read" /\ pc'[p] # "read") => snap'[p] = Snapshot(defects, syncQueue)
            /\ pc[p] # "read" => snap'[p] = snap[p]]_vars
    /\ []<>(\A p \in Procs : pc[p] \notin {"sync", "read", "upsert", "store"})

\* A cycle has returned although a record became pending while it ran, and
\* that record got no upsert.
C29_Witness ==
    \E p \in Procs :
        /\ Returned(p)
        /\ Len(log[p]) >= 1
        /\ p \in lastSave.during
        /\ ~lastSave.online
        /\ lastSave.outcome = "resolved"
        /\ Key(lastSave.value) \in QueuedKeys
        /\ Key(lastSave.value) \notin KeysSent(p)

\* C30: syncWithServer invoked while offline returns at once: it makes no
\* remote call and leaves the stores, and so the pending count, unchanged.
C30_OfflineSyncDoesNothing ==
    [][\A p \in Procs :
          (pc[p] = "sync" /\ pc'[p] # "sync" /\ ~online) =>
              /\ pc'[p] = AfterLoop
              /\ log'[p] = <<>>
              /\ remote' = remote
              /\ defects' = defects
              /\ syncQueue' = syncQueue
              /\ getDefects' = getDefects
              /\ getPendingSyncCount' = getPendingSyncCount]_vars

\* An offline call has returned while records were pending.
C30_Witness ==
    \E p \in Procs :
        /\ pc[p] \in {"fetch", "done"}
        /\ ~base[p].read
        /\ log[p] = <<>>
        /\ getPendingSyncCount > 0

\* The syncWithServer call of p takes a step after its read.
DrainStep(p) ==
    /\ pc[p] \in {"upsert", "store"}
    /\ pc'[p] # pc[p] \/ idx'[p] # idx[p]

\* C31: a drain cycle changes only pending records.  No step of a cycle adds
\* or removes a record or changes a record's localId, and a record that was
\* 'synced' when the cycle read the store, and still has that content, is
\* left as it is by every step of the cycle.
C31_DrainChangesOnlyPending ==
    [][\A p \in Procs :
          DrainStep(p) =>
              /\ DOMAIN defects' = DOMAIN defects
              /\ \A k \in DOMAIN defects : defects'[k].localId = defects[k].localId
              /\ \A k \in DOMAIN base[p].synced \cap DOMAIN defects :
                     defects[k] = base[p].synced[k] => defects'[k] = defects[k]]_vars

\* The handleOnline run of p shows its closing notice.
Notified(p) == pc[p] = "fetch" /\ pc'[p] = "done"

\* C32: when the "Back Online / All changes have been synchronized" notice
\* is shown at the end of a handleOnline run, no record is pending and no
\* upsert of the run's drain failed; after a failed upsert the notice is
\* "Sync Error".
C32_BackOnlineMeansSynced ==
    [][\A p \in Procs :
          Notified(p) =>
              /\ toast'.title = "Back Online" => (getPendingSyncCount' = 0 /\ AllOk(p))
              /\ ~AllOk(p) => toast'.title = "Sync Error"]_vars

\* C33: the two cache partitions stay separate.  The api cache holds, and
\* is about to receive, responses to API requests only; the shell cache
\* responses to other requests only; and a request that is not a GET is
\* passed through: nothing is answered for it and nothing is cached.
C33_PartitionsSeparate ==
    /\ [](build = "SW2" =>
            /\ \A u \in DOMAIN ApiEntries : isApiRequest(u)
            /\ \A u \in DOMAIN ShellEntries : ~isApiRequest(u)
            /\ \A t \in tasks : t.cache = (IF isApiRequest(t.url) THEN API_CACHE ELSE APP_CACHE))
    /\ [][(fetches' = fetches + 1 /\ reply'.method # "GET") =>
            /\ reply'.kind = "passthrough"
            /\ tasks' = tasks
            /\ caches' = caches]_vars

\* Both partitions have been written by fetches, and a POST to the API has
\* been passed through.
C33_Witness ==
    /\ build = "SW2"
    /\ reply.method = "POST"
    /\ reply.kind = "passthrough"
    /\ ApiEntries # <<>>
    /\ OfflinePage \in DOMAIN ShellEntries

\* C34: activation empties the api cache.  Right after the activate step
\* the api cache holds no entry, and an API request whose network fetch
\* fails before anything has been cached again gets the error, not a
\* cached response.
C34_ActivationEmptiesApiCache ==
    /\ [][(build = "SW2" /\ phase = "installed" /\ phase' = "activated") =>
            ApiEntries' = <<>>]_vars
    /\ [][(Handled(TRUE) /\ fetches = 0 /\ reply'.net = "rejected") =>
            reply'.kind = "error"]_vars

\* The api cache held an entry before the activation, and the first API
\* request after it failed on the network and got the error.
C34_Witness ==
    /\ build = "SW2"
    /\ phase = "activated"
    /\ API_CACHE \in preexisting
    /\ fetches = 1
    /\ isApiRequest(reply.url)
    /\ reply.method = "GET"
    /\ reply.net = "rejected"
    /\ reply.kind = "error"

\* C35: when the install step is reported as complete, every asset of the
\* precache list is in the shell cache: an install whose caching failed is
\* not reported as successful.
C35_InstallCachesAll ==
    [][(phase = "parsed" /\ phase' = "installed") =>
            \A u \in Precache : u \in DOMAIN caches'[ShellCache]]_vars

\* C36: logout clears the local store only after a successful sign-out.
\* When the sign-out fails (the "Error" notice) the stores, pending records
\* included, are as before; when it succeeds every record and every pending
\* entry is removed; in both cases no drain is started and nothing is sent.
C36_ClearOnlyAfterSignOut ==
    [][(logouts' = logouts + 1) =>
            /\ remote' = remote
            /\ pc' = pc
            /\ log' = log
            /\ IF toast'.title = "Error"
               THEN defects' = defects /\ syncQueue' = syncQueue
               ELSE /\ toast'.title = "Logged Out"
                    /\ getDefects' = <<>>
                    /\ getPendingSyncCount' = 0]_vars

\* A sign-out has failed while a record was pending, and the record is
\* still pending.
C36_Witness ==
    /\ logouts > 0
    /\ toast = Toast("Error", "Failed to logout properly")
    /\ lastSave.outcome = "resolved"
    /\ ~lastSave.online
    /\ getPendingSyncCount > 0
    /\ \A p \in Procs : log[p] = <<>>

\* The operation calls retryOperation has made in this document.
Calls == Len(errors) + (IF settled.state = "resolved" THEN 1 ELSE 0)

\* C37: retryOperation calls the operation at most maxRetries (3) times; it
\* stops at the first call that succeeds and resolves with that call's
\* result; it has waited 1000 * 2^attempt ms after each failed attempt that
\* another attempt followed; and it rejects only after the last attempt
\* failed, with that attempt's error.
C37_RetryAtMostThreeTimes ==
    /\ [](/\ Calls <= maxRetries
          /\ settled.state = "resolved" => settled.value = <<"result", Len(errors)>>
          /\ settled.state = "rejected" =>
                 Len(errors) = maxRetries /\ settled.value = errors[maxRetries]
          /\ Len(waits) = (IF settled.state = "rejected" THEN Len(errors) - 1 ELSE Len(errors))
          /\ \A i \in DOMAIN waits : waits[i] = 1000 * 2^(i - 1))
    /\ [][(settled.state # "pending" /\ loads' = loads) =>
            (errors' = errors /\ waits' = waits /\ settled' = settled)]_vars

\* The third attempt has failed after waits of one and two seconds, and its
\* error has been rethrown.
C37_Witness ==
    /\ settled.state = "rejected"
    /\ Calls = 3
    /\ waits = <<1000, 2000>>
    /\ settled.value = errors[3]

\* C38: the page reloads at most once in response to controllerchange
\* events: the first event sets the flag and reloads, and no later event
\* of that document reloads again.
C38_ReloadAtMostOnce ==
    /\ [](reloads <= 1 /\ (refreshing <=> reloads = 1))
    /\ [][(changes' = changes + 1) =>
            IF refreshing
            THEN reloads' = reloads /\ refreshing'
            ELSE reloads' = 1 /\ refreshing']_vars

\* More events than one have reached one document, and it has reloaded once.
C38_Witness ==
    /\ loads = 1
    /\ changes >= 2
    /\ refreshing
    /\ reloads = 1

TypeOK ==
    /\ online \in BOOLEAN
    /\ variant = "V1" => \A k \in DOMAIN defects : defects[k].localId = k
    /\ variant # "V1" => \A k \in DOMAIN defects : defects[k].id = k
    /\ phase = "activated" => \A u \in Urls : Cardinality(Holders(caches, u)) <= 1
    /\ clock = (clock \div SWEEP_INTERVAL) * SWEEP_INTERVAL
====
